---- MODULE Spec2Model ----
(***************************************************************************)
(* Model of the trading execution and resilience core of pythia:           *)
(*   - EnhancedTradingEngine.execute_trade / validate_trade and the        *)
(*     atomic_trade_lock context manager (core/enhanced_trading_engine_v2) *)
(*   - StopLossTakeProfitManager._close_position (stop_loss_manager_v2)    *)
(*   - CircuitBreaker (core/circuit_breaker)                               *)
(*   - SagaCoordinator (app/core/saga)                                     *)
(*   - AsyncEventBus (core/event_bus)                                      *)
(*   - StopLossTakeProfitManager._update_trailing_stop                     *)
(*   - MultiAssetOrchestrator (application/trading/multi_asset_orchestrator)*)
(*   - PredictionMarket.arbitrage_opportunity and ArbitrageDetector        *)
(*   - IdempotencyLayer (core/idempotency)                                 *)
(*                                                                         *)
(* Units.  Quantities are counted in units of 0.0001 (the quantum of       *)
(* QuantityValidator), prices in price units, money in quantity-unit x     *)
(* price-unit products.  All values of the model are far below 15          *)
(* significant digits, where float(Decimal) and Decimal(str(float)) are    *)
(* exact, so the float columns hold the integers written here.             *)
(*                                                                         *)
(* Storage.  Each execute_trade call and the stop-loss manager run in a    *)
(* transaction of their own on a row-locking store: a statement reads the  *)
(* rows as last committed plus the transaction's own flushed writes, a     *)
(* SELECT ... FOR UPDATE returns the row as committed and holds its lock   *)
(* until commit or rollback, and NOWAIT fails when the lock is taken.      *)
(*                                                                         *)
(* Event bus.  The coroutines of the bus interleave at their awaits only.  *)
(* start and stop are the lifecycle operations of process startup and      *)
(* shutdown: start is not called while a stop is waiting for the worker.   *)
(*                                                                         *)
(* Orchestrator.  Confidences are counted in hundredths and order sizes in *)
(* notional units.  An execute_signal call runs to its end before the next *)
(* one starts, and the calls follow each other within the recovery timeout *)
(* of a circuit breaker.  An event handler that fails raises an Exception. *)
(*                                                                         *)
(* Markets.  Prices, costs and profits are counted in hundredths; every    *)
(* price is a positive multiple of 0.01, where the float sums and the      *)
(* comparison with 1.0 of arbitrage_opportunity agree with the exact ones. *)
(* A ROI is kept as the pair profit, cost and compared exactly.  A         *)
(* description is a sequence of characters.                                *)
(***************************************************************************)
EXTENDS Integers, Sequences, FiniteSets, TLC

\* ------------------------------------------------------------------ bounds
NCalls == 3
InitialBalance == 24
NLedgerCalls == 2
MaxSweeps == 1
NCallers == 2
MaxTime == 5
MaxSteps == 3
MaxEvents == 3
MaxPrice == 8
MaxHandlers == 2
MaxFailures == 3
MaxMarkets == 2
NRequests == 2
MaxProcessCalls == 3
MaxClock == 3
MaxReruns == 1

Calls == 1..NCalls
LedgerCalls == 1..NLedgerCalls
StopLossId == NCalls + 1
Symbols == {"AAPL"}
Quantities == {1, 3}
Prices == {2, 4}
Percents == {0, 50}

Callers == 1..NCallers
StepArgs == {"a", "b"}
QueueSizes == {0, 2}
EventTypes == {"trade.executed", "system.error"}
TrailPrices == {p \in 2..MaxPrice : p % 2 = 0}
TrailQuantities == {-3, 3}
TrailStops == {0, 3}
AssetClasses == {"crypto", "stocks"}
AdapterOutcomes == {"closed", "raised", "ok"}
SignalActions == {"BUY", "HOLD"}
Confidences == {0, 2, 3, 100}
MinConfidences == {0, 60}
Descriptions == { <<"f", "e", "d", "r", "a">>, <<" ", "F", "e", "d", "R", "a">>,
                  <<"f", "e", "d", "r", "x">>, <<"b", "t", "c">> }
Quotes == { <<42, 58>>, <<50, 40>>, <<55, 48>>, <<60, 45>> }
MinRois == {1, 10}
Requests == 1..NRequests
IdemKeys == {"", "key-123"}

\* --------------------------------------------------------------- settings
failure_threshold == 2
recovery_timeout == 1
success_threshold == 2
min_balance == 1
ttl_seconds == 1
min_size == 10
max_size == 1000
max_position_size_pct == 50
max_positions == 50
QtyEpsilon == 1

\* --------------------------------------------------------------- state
VARIABLES
    balance,        \* Portfolio.balance, committed
    total_value,    \* Portfolio.total_value, committed
    positions,      \* committed Position rows, index = id
    trades,         \* committed Trade rows
    lock_holder,    \* transaction holding the Portfolio row lock, 0 = none
    pc,             \* per call: where execute_trade stands
    args,           \* per call: the arguments of execute_trade
    result,         \* per call: what execute_trade reported
    tx,             \* per call: the uncommitted writes of its session
    reported,       \* what the callers were told: the successful buys and sells
    sl,             \* the StopLossTakeProfitManager: its sweep and its open transaction
    breaker,        \* CircuitBreaker: state, failures, last_failure_time
    now,            \* time.time(), in units of recovery_timeout
    callers,        \* per caller of the wrapped function: where async_wrapper stands
    history,        \* what the callers observed: runs of failures and of trial successes
    saga,           \* SagaCoordinator: its plan, its progress and what its steps were asked
    bus,            \* AsyncEventBus: its queue, its worker task and what its handlers saw
    trail,          \* a Position with a trailing stop, under a manager with trailing_stop set
    orch,           \* MultiAssetOrchestrator: its ports, its handlers and its last call
    arb,            \* ArbitrageDetector: its minimum ROI and its last scan
    idem            \* IdempotencyLayer: _memory_cache, the clock and the process calls

ledger_vars == <<balance, total_value, positions, trades, lock_holder, pc, args, result, tx,
                 reported, sl>>

breaker_vars == <<breaker, now, callers, history>>

saga_vars == <<saga>>

bus_vars == <<bus>>

trail_vars == <<trail>>

orch_vars == <<orch>>

arb_vars == <<arb>>

idem_vars == <<idem>>

outside_ledger == <<breaker_vars, saga_vars, bus_vars, trail_vars,
    orch_vars, arb_vars, idem_vars>>
outside_breaker == <<ledger_vars, saga_vars, bus_vars, trail_vars,
    orch_vars, arb_vars, idem_vars>>
outside_saga == <<ledger_vars, breaker_vars, bus_vars, trail_vars,
    orch_vars, arb_vars, idem_vars>>
outside_bus == <<ledger_vars, breaker_vars, saga_vars, trail_vars,
    orch_vars, arb_vars, idem_vars>>
outside_trail == <<ledger_vars, breaker_vars, saga_vars, bus_vars,
    orch_vars, arb_vars, idem_vars>>
outside_orch == <<ledger_vars, breaker_vars, saga_vars, bus_vars,
    trail_vars, arb_vars, idem_vars>>
outside_arb == <<ledger_vars, breaker_vars, saga_vars, bus_vars,
    trail_vars, orch_vars, idem_vars>>
outside_idem == <<ledger_vars, breaker_vars, saga_vars, bus_vars,
    trail_vars, orch_vars, arb_vars>>

vars == <<ledger_vars, breaker_vars, saga_vars, bus_vars,
         trail_vars, orch_vars, arb_vars, idem_vars>>

\* --------------------------------------------------------------- helpers
RECURSIVE SumSeq(_, _)
SumSeq(f, n) == IF n = 0 THEN 0 ELSE f[n] + SumSeq(f, n - 1)

NoArgs == [symbol |-> "", side |-> "", quantity |-> 0, price |-> 0,
           stop_loss_pct |-> 0, take_profit_pct |-> 0]

NoPosition == [symbol |-> "", quantity |-> 0, average_price |-> 0, current_price |-> 0,
               status |-> "", stop_loss_price |-> 0, take_profit_price |-> 0,
               exit_price |-> 0, exit_reason |-> ""]

NoTrade == [symbol |-> "", side |-> "", quantity |-> 0, price |-> 0, has_pnl |-> FALSE, pnl |-> 0]

\* what a call reported: the code and the message of the exception the caller receives
\* ("success" when it returns), and the error text that is logged
NoResult == [code |-> "none", error |-> "", message |-> ""]

\* the message with which atomic_trade_lock raises DB_TRANSACTION_FAILED, line 32
TradeLockMessage == "Concurrent trade detected - please retry"

TradingError(code, error) ==
    [code |-> code, error |-> error,
     message |-> IF code = "DB_TRANSACTION_FAILED" THEN TradeLockMessage ELSE error]

\* the members of ErrorCode (core/errors.py, lines 10-70) that the engine names
ErrorCodes == {"DB_TRANSACTION_FAILED", "INTERNAL_ERROR", "VALIDATION_ERROR"}

\* PriceValidator.validate and QuantityValidator.validate (core/validators.py):
\* the message of the ValidationError they raise, "OK" when they return
Validators(a) ==
    IF a.price <= 0 THEN "Price must be positive"
    ELSE IF a.quantity <= 0 THEN "Quantity must be positive"
    ELSE "OK"

NoTx == [balance |-> 0, total_value |-> 0, pos_id |-> 0, pos_rec |-> NoPosition,
         trade |-> NoTrade, trade_added |-> FALSE]

\* db.query(Position).filter(symbol, status == 'open').first(): id of the row, 0 = None
OpenPositionId(rows, symbol) ==
    IF \E i \in 1..Len(rows) : rows[i].symbol = symbol /\ rows[i].status = "open"
    THEN CHOOSE i \in 1..Len(rows) :
            /\ rows[i].symbol = symbol /\ rows[i].status = "open"
            /\ \A j \in 1..Len(rows) :
                  (rows[j].symbol = symbol /\ rows[j].status = "open") => i <= j
    ELSE 0

OpenPositionCount(rows) == Cardinality({i \in 1..Len(rows) : rows[i].status = "open"})

\* validate_trade: (True, 'OK') or (False, reason), read from the committed rows
validate_trade(a) ==
    LET total_cost == a.quantity * a.price
        pid == OpenPositionId(positions, a.symbol)
    IN  IF a.side \notin {"buy", "sell"} THEN "Invalid side"
        ELSE IF a.side = "buy" THEN
            IF balance < total_cost THEN "Insufficient balance"
            ELSE IF balance - total_cost < min_balance THEN "Trade would violate minimum balance"
            ELSE IF total_cost * 100 > total_value * max_position_size_pct
                 THEN "Position size exceeds limit"
            ELSE IF pid = 0 /\ OpenPositionCount(positions) >= max_positions
                 THEN "Maximum positions limit reached"
            ELSE "OK"
        ELSE
            IF pid = 0 THEN "No position found"
            ELSE IF positions[pid].quantity < a.quantity THEN "Insufficient shares"
            ELSE "OK"

\* the manager between sweeps: nothing read, no transaction open
NoSweep == [pc |-> "idle", sweeps |-> 0, snapshot |-> <<>>, queue |-> <<>>, cur |-> 0,
            reason |-> "", locked_position |-> NoPosition, balance |-> 0, total_value |-> 0,
            trade |-> NoTrade, closed |-> 0, log |-> ""]

\* --------------------------------------------------------------- Init
\* no exception
NoError == [type |-> "none"]

\* SagaCoordinator.__init__, lines 31-34: no step registered, none completed.
\* reruns counts the execute calls made after the first one has ended.
NoSaga == [pc |-> "idle", steps |-> <<>>, idx |-> 0, completed_steps |-> <<>>,
           queue |-> <<>>, cause |-> NoError, raised |-> NoError,
           invoked |-> <<>>, reported_critical |-> {}, reruns |-> 0]

\* no Event
NoEvent == [id |-> 0, type |-> ""]

\* the process before AsyncEventBus(...) is constructed.  published, accepted,
\* delivered, errors and accepted_at_stop record what the publishers and the handlers
\* observed; the other fields are the fields and the tasks of the bus.
NoBus == [built |-> FALSE, max_queue_size |-> 0, queue |-> <<>>, running |-> FALSE,
          worker |-> "none", current |-> NoEvent, next_handler |-> 0,
          stop |-> "none", published |-> 0, accepted |-> {}, delivered |-> <<>>,
          errors |-> <<>>, accepted_at_stop |-> {}]

\* no Position with a trailing stop yet.  moved and checked_price record whether a
\* trailing update changed the stop and the price at which the last one was evaluated.
NoTrail == [status |-> "none", quantity |-> 0, current_price |-> 0, stop_loss_price |-> 0,
            take_profit_price |-> 0, trailing_stop_pct |-> 0, exit_reason |-> "",
            moved |-> FALSE, checked_price |-> 0]

\* a TradingSignal, and the record of one execute_signal call: the status it returned
\* (or the exception it raised), the adapter methods it called, what is_market_open
\* answered, the outcome of place_order, the order size, and the handlers registered,
\* failing and called
NoSignal == [action |-> "", confidence |-> 0, asset_class |-> ""]

NoCall == [signal |-> NoSignal, status |-> "none", touched |-> <<>>, market |-> "",
           placed |-> "none",
           quantity |-> 0, registered |-> 0, failing |-> {}, delivered |-> <<>>]

\* no orchestrator yet.  failures counts, per adapter, the place_order calls that
\* failed since its last success; sized holds the confidence and the size of the two
\* most recent size computations.
NoOrchestrator == [built |-> FALSE, trading_ports |-> {}, min_confidence |-> 0,
                   event_handlers |-> 0, last |-> NoCall,
                   failures |-> [a \in AssetClasses |-> 0], sized |-> <<>>]

\* no ArbitrageDetector yet; afterwards min_roi, and for its scan the two market
\* lists, the pairs that matched and the opportunities returned
NoDetector == [pc |-> "none", min_roi |-> 0, kalshi_markets |-> <<>>,
               polymarket_markets |-> <<>>, matched |-> <<>>, opportunities |-> <<>>]

\* a caller of the wrapped function before its first call.  attempted and func record
\* whether the wrapped function was started and how it ended; value is the result or
\* the error the wrapper handed to the caller (0: none).
NoCaller == [pc |-> "idle", outcome |-> "none", admitted |-> "", attempted |-> FALSE,
             func |-> "", value |-> 0]

\* an absent entry of _memory_cache, a process call that has not been made, and the
\* layer with an empty cache.  executions counts the operations started per key,
\* last_success is the time the last process call of a key returned (-1: never),
\* calls counts the process calls and started is the request that made the last one.
NoEntry == [present |-> FALSE, result |-> 0, expiry |-> 0]

NoRequest == [pc |-> "idle", key |-> "", outcome |-> "none", value |-> 0]

NoIdempotency == [cache |-> [k \in IdemKeys |-> NoEntry],
                  requests |-> [r \in Requests |-> NoRequest],
                  executions |-> [k \in IdemKeys |-> 0],
                  last_success |-> [k \in IdemKeys |-> -1],
                  time |-> 0, calls |-> 0, started |-> 0]

Init ==
    /\ balance = InitialBalance
    /\ total_value = InitialBalance
    /\ positions = <<>>
    /\ trades = <<>>
    /\ lock_holder = 0
    /\ pc = [c \in Calls |-> "idle"]
    /\ args = [c \in Calls |-> NoArgs]
    /\ result = [c \in Calls |-> NoResult]
    /\ tx = [c \in Calls |-> NoTx]
    /\ reported = [successes |-> 0, buy_cost |-> 0, sell_proceeds |-> 0]
    /\ sl = NoSweep
    /\ breaker = [state |-> "CLOSED", failures |-> 0, last_failure_time |-> 0]
    /\ now = 1
    /\ callers = [k \in Callers |-> NoCaller]
    /\ history = [streak |-> 0, trial_successes |-> 0, reopened |-> FALSE]
    /\ saga = NoSaga
    /\ bus = NoBus
    /\ trail = NoTrail
    /\ orch = NoOrchestrator
    /\ arb = NoDetector
    /\ idem = NoIdempotency

\* the orders submitted without protective prices
PlainOrders ==
    [symbol : Symbols, side : {"buy", "sell"}, quantity : Quantities, price : Prices,
     stop_loss_pct : {0}, take_profit_pct : {0}]

\* the orders submitted with both protective prices or with none; a sell never reads
\* its stop-loss and take-profit arguments
ProtectedOrders ==
    {a \in [symbol : Symbols, side : {"buy"}, quantity : Quantities, price : Prices,
            stop_loss_pct : Percents, take_profit_pct : Percents] :
        a.stop_loss_pct = a.take_profit_pct}
    \cup [symbol : Symbols, side : {"sell"}, quantity : Quantities, price : Prices,
          stop_loss_pct : {0}, take_profit_pct : {0}]

\* the orders a validator refuses
MalformedOrders ==
    [symbol : Symbols, side : {"buy"}, quantity : {0}, price : {2},
     stop_loss_pct : {0}, take_profit_pct : {0}]

\* raise TradingError(code=ErrorCode.TRADE_VALIDATION_FAILED, message=reason), line 94:
\* looking up a name that ErrorCode does not define raises AttributeError instead
RaiseValidationFailed(reason) ==
    IF "TRADE_VALIDATION_FAILED" \in ErrorCodes
    THEN TradingError("TRADE_VALIDATION_FAILED", reason)
    ELSE [code |-> "AttributeError", error |-> reason, message |-> "TRADE_VALIDATION_FAILED"]

\* execute_trade, lines 90-97: validation before any lock attempt
\* (calls are numbered in the order they arrive)
Validate(c, orders) ==
    /\ pc[c] = "idle"
    /\ c > 1 => pc[c - 1] # "idle"
    /\ \E a \in orders :
        IF Validators(a) # "OK"
        THEN \* lines 48-53 and 91: ValidationError is no TradingError, it is not caught
             /\ pc' = [pc EXCEPT ![c] = "done"]
             /\ result' = [result EXCEPT ![c] = TradingError("VALIDATION_ERROR", Validators(a))]
             /\ args' = args
        ELSE IF validate_trade(a) = "OK"
        THEN /\ args' = [args EXCEPT ![c] = a]
             /\ pc' = [pc EXCEPT ![c] = "validated"]
             /\ result' = result
        ELSE \* lines 92-94: the reason is logged, then the raise statement is evaluated
             /\ pc' = [pc EXCEPT ![c] = "done"]
             /\ result' = [result EXCEPT ![c] = RaiseValidationFailed(validate_trade(a))]
             /\ args' = args
    /\ UNCHANGED <<balance, total_value, positions, trades, lock_holder, tx, reported, sl>>
    /\ UNCHANGED outside_ledger

\* SELECT ... FOR UPDATE NOWAIT, line 26: the row lock is granted only when free
LockFreeIgnored(holder) == TRUE

LockFree(holder) == holder = 0

\* atomic_trade_lock entry, lines 25-27, and its except branch, lines 29-32, when
\* the row is already locked
AcquireLock(c) ==
    /\ pc[c] = "validated"
    /\ IF LockFree(lock_holder)
       THEN /\ lock_holder' = c
            /\ tx' = [tx EXCEPT ![c] = [NoTx EXCEPT !.balance = balance,
                                                    !.total_value = total_value]]
            /\ pc' = [pc EXCEPT ![c] = "locked"]
            /\ result' = result
       ELSE /\ pc' = [pc EXCEPT ![c] = "done"]
            /\ result' = [result EXCEPT ![c] =
                              TradingError("DB_TRANSACTION_FAILED", "lock not available")]
            /\ UNCHANGED <<lock_holder, tx>>
    /\ args' = IF LockFree(lock_holder) THEN args ELSE [args EXCEPT ![c] = NoArgs]
    /\ UNCHANGED <<balance, total_value, positions, trades, reported, sl>>
    /\ UNCHANGED outside_ledger

\* lines 101-107: the new balance of the locked row
BalanceAfterSellDebits(bal, side, amount) == bal - amount

BalanceAfter(bal, side, amount) == IF side = "buy" THEN bal - amount ELSE bal + amount

\* lines 100-107
UpdateBalance(c) ==
    /\ pc[c] = "locked"
    /\ LET a == args[c]
           trade == [symbol |-> a.symbol, side |-> a.side, quantity |-> a.quantity,
                     price |-> a.price, has_pnl |-> FALSE, pnl |-> 0]
       IN tx' = [tx EXCEPT ![c].trade = trade,
                           ![c].balance = BalanceAfter(tx[c].balance, a.side, a.quantity * a.price)]
    /\ pc' = [pc EXCEPT ![c] = "balance_set"]
    /\ UNCHANGED <<balance, total_value, positions, trades, lock_holder, args, result, reported, sl>>
    /\ UNCHANGED outside_ledger

\* lines 109-124: the Position row after a buy (pid = 0: a new row)
PositionAfterBuy(rows, pid, a) ==
    LET base == IF pid = 0
                THEN [NoPosition EXCEPT !.symbol = a.symbol, !.quantity = a.quantity,
                                        !.average_price = a.price,
                                        !.current_price = a.price, !.status = "open"]
                ELSE LET total_quantity == rows[pid].quantity + a.quantity
                         total_cost == rows[pid].quantity * rows[pid].average_price
                                       + a.quantity * a.price
                     IN [rows[pid] EXCEPT !.quantity = total_quantity,
                                          !.average_price = total_cost \div total_quantity,
                                          !.current_price = a.price]
        stopped == IF a.stop_loss_pct # 0
                   THEN [base EXCEPT !.stop_loss_price =
                                         (a.price * (100 - a.stop_loss_pct)) \div 100]
                   ELSE base
    IN  IF a.take_profit_pct # 0
        THEN [stopped EXCEPT !.take_profit_price =
                                 (a.price * (100 + a.take_profit_pct)) \div 100]
        ELSE stopped

\* lines 125-132: the Position row after a sell
PositionAfterSellStaysOpen(rows, pid, a) ==
    [rows[pid] EXCEPT !.quantity = rows[pid].quantity - a.quantity]

PositionAfterSell(rows, pid, a) ==
    LET q == rows[pid].quantity - a.quantity
    IN  [rows[pid] EXCEPT !.quantity = q,
                          !.status = IF q <= QtyEpsilon THEN "closed" ELSE "open"]

\* lines 108-132
UpsertPosition(c) ==
    /\ pc[c] = "balance_set"
    /\ LET a == args[c]
           pid == OpenPositionId(positions, a.symbol)
       IN IF a.side = "buy"
          THEN tx' = [tx EXCEPT ![c].pos_id = IF pid = 0 THEN Len(positions) + 1 ELSE pid,
                                ![c].pos_rec = PositionAfterBuy(positions, pid, a)]
          ELSE IF pid # 0
          THEN tx' = [tx EXCEPT ![c].pos_id = pid,
                                ![c].pos_rec = PositionAfterSell(positions, pid, a),
                                ![c].trade.has_pnl = TRUE,
                                ![c].trade.pnl = (a.price - positions[pid].average_price)
                                                 * a.quantity]
          ELSE tx' = tx
    /\ pc' = [pc EXCEPT ![c] = "position_set"]
    /\ UNCHANGED <<balance, total_value, positions, trades, lock_holder, args, result, reported, sl>>
    /\ UNCHANGED outside_ledger

\* the sweep holds the row lock of a Position from its SELECT ... FOR UPDATE
\* (stop_loss_manager_v2, line 79) until its transaction ends
PositionLockedBySweep(id) ==
    /\ sl.pc \in {"pos_locked", "locked", "trade_flushed", "ready"}
    /\ sl.cur = id

\* a call holds the row lock of the Position it updated once the UPDATE is flushed
\* (the autoflush of the query of line 133) until its transaction ends
PositionLockedByCall(id) ==
    \E c \in Calls : pc[c] = "ready" /\ tx[c].pos_id = id

\* the Position rows a session sees: the committed rows and its own flushed write
RowsSeenBy(t) ==
    IF t.pos_id = 0 THEN positions
    ELSE IF t.pos_id > Len(positions) THEN Append(positions, t.pos_rec)
    ELSE [positions EXCEPT ![t.pos_id] = t.pos_rec]

\* line 133: sum of quantity * current_price over the open positions
TotalPositionValue(rows) ==
    SumSeq([i \in 1..Len(rows) |->
               IF rows[i].status = "open" THEN rows[i].quantity * rows[i].current_price ELSE 0],
           Len(rows))

\* lines 133-135
UpdateTotals(c) ==
    /\ pc[c] = "position_set"
    /\ ~PositionLockedBySweep(tx[c].pos_id)
    /\ tx' = [tx EXCEPT ![c].total_value = tx[c].balance + TotalPositionValue(RowsSeenBy(tx[c])),
                        ![c].trade_added = TRUE]
    /\ pc' = [pc EXCEPT ![c] = "ready"]
    /\ UNCHANGED <<balance, total_value, positions, trades, lock_holder, args, result, reported, sl>>
    /\ UNCHANGED outside_ledger

\* db.commit(), line 28, then the return value of line 137 reaches the caller
Commit(c) ==
    /\ pc[c] = "ready"
    /\ balance' = tx[c].balance
    /\ total_value' = tx[c].total_value
    /\ positions' = RowsSeenBy(tx[c])
    /\ trades' = IF tx[c].trade_added THEN Append(trades, tx[c].trade) ELSE trades
    /\ lock_holder' = IF lock_holder = c THEN 0 ELSE lock_holder
    /\ tx' = [tx EXCEPT ![c] = NoTx]
    /\ pc' = [pc EXCEPT ![c] = "done"]
    /\ result' = [result EXCEPT ![c] = [code |-> "success", error |-> "", message |-> ""]]
    /\ reported' = [successes |-> reported.successes + 1,
                    buy_cost |-> reported.buy_cost
                        + (IF args[c].side = "buy" THEN args[c].quantity * args[c].price ELSE 0),
                    sell_proceeds |-> reported.sell_proceeds
                        + (IF args[c].side = "sell" THEN args[c].quantity * args[c].price ELSE 0)]
    /\ args' = [args EXCEPT ![c] = NoArgs]
    /\ UNCHANGED sl
    /\ UNCHANGED outside_ledger

CriticalPcs == {"locked", "balance_set", "position_set", "ready"}

\* db.rollback(), line 30: what the Portfolio row holds afterwards
BalanceAfterRollbackKeepsFlush(c) ==
    IF pc[c] \in {"position_set", "ready"} THEN tx[c].balance ELSE balance

BalanceAfterRollback(c) == balance

\* a statement inside the with block, or the commit itself, raises: lines 29-32
Fail(c) ==
    /\ pc[c] \in CriticalPcs
    /\ balance' = BalanceAfterRollback(c)
    /\ lock_holder' = IF lock_holder = c THEN 0 ELSE lock_holder
    /\ tx' = [tx EXCEPT ![c] = NoTx]
    /\ pc' = [pc EXCEPT ![c] = "done"]
    /\ result' = [result EXCEPT ![c] =
                      TradingError("DB_TRANSACTION_FAILED",
                                   IF pc[c] = "ready" THEN "commit failed" ELSE "statement failed")]
    /\ args' = [args EXCEPT ![c] = NoArgs]
    /\ UNCHANGED <<total_value, positions, trades, reported, sl>>
    /\ UNCHANGED outside_ledger

ExecuteTrade(c, orders) ==
    \/ Validate(c, orders)
    \/ AcquireLock(c)
    \/ UpdateBalance(c)
    \/ UpsertPosition(c)
    \/ UpdateTotals(c)
    \/ Commit(c)
    \/ Fail(c)

TradeNext == \E c \in Calls : ExecuteTrade(c, PlainOrders \cup MalformedOrders)


\* ===================================================== stop-loss manager
\* check_all_positions, line 46: ids of the open positions, in table order
RECURSIVE OpenIdsFrom(_, _)
OpenIdsFrom(rows, i) ==
    IF i > Len(rows) THEN <<>>
    ELSE IF rows[i].status = "open" THEN <<i>> \o OpenIdsFrom(rows, i + 1)
    ELSE OpenIdsFrom(rows, i + 1)

\* check_all_positions, lines 50 and 58: which trigger fires for a position, "" = none
TriggerOf(p) ==
    IF p.current_price = 0 THEN ""
    ELSE IF p.stop_loss_price # 0 /\ p.current_price <= p.stop_loss_price THEN "stop_loss"
    ELSE IF p.take_profit_price # 0 /\ p.current_price >= p.take_profit_price THEN "take_profit"
    ELSE ""

\* check_all_positions, lines 45-46
SweepStart ==
    /\ sl.pc = "idle"
    /\ sl.sweeps < MaxSweeps
    /\ sl' = [NoSweep EXCEPT !.pc = "scan", !.sweeps = sl.sweeps + 1, !.closed = sl.closed,
                             !.log = sl.log, !.snapshot = positions,
                             !.queue = OpenIdsFrom(positions, 1)]
    /\ UNCHANGED <<balance, total_value, positions, trades, lock_holder, pc, args, result, tx, reported>>
    /\ UNCHANGED outside_ledger

\* check_all_positions, lines 47-67: the next position of the loop
SweepExamine ==
    /\ sl.pc = "scan"
    /\ sl.queue # <<>>
    /\ LET id == Head(sl.queue)
           reason == TriggerOf(sl.snapshot[id])
       IN sl' = IF reason # ""
                THEN [sl EXCEPT !.pc = "closing", !.cur = id, !.reason = reason,
                                !.queue = Tail(sl.queue)]
                ELSE [sl EXCEPT !.queue = Tail(sl.queue)]
    /\ UNCHANGED <<balance, total_value, positions, trades, lock_holder, pc, args, result, tx, reported>>
    /\ UNCHANGED outside_ledger

\* check_all_positions, line 68
SweepEnd ==
    /\ sl.pc = "scan"
    /\ sl.queue = <<>>
    /\ sl' = [sl EXCEPT !.pc = "idle", !.snapshot = <<>>, !.cur = 0, !.reason = ""]
    /\ UNCHANGED <<balance, total_value, positions, trades, lock_holder, pc, args, result, tx, reported>>
    /\ UNCHANGED outside_ledger

\* _close_position, line 79: SELECT the Position FOR UPDATE, waiting for the row
LockPosition ==
    /\ sl.pc = "closing"
    /\ ~PositionLockedByCall(sl.cur)
    /\ sl' = [sl EXCEPT !.pc = "pos_locked", !.locked_position = positions[sl.cur]]
    /\ UNCHANGED <<balance, total_value, positions, trades, lock_holder, pc, args, result, tx, reported>>
    /\ UNCHANGED outside_ledger

\* _close_position, line 80: SELECT the Portfolio FOR UPDATE, waiting for the row
LockPortfolio ==
    /\ sl.pc = "pos_locked"
    /\ lock_holder = 0
    /\ lock_holder' = StopLossId
    /\ sl' = [sl EXCEPT !.pc = "locked", !.balance = balance, !.total_value = total_value]
    /\ UNCHANGED <<balance, total_value, positions, trades, pc, args, result, tx, reported>>
    /\ UNCHANGED outside_ledger

\* _close_position, line 82: the price at which the position is closed
ExitPriceAtThreshold(lp, reason) ==
    IF reason = "stop_loss" THEN lp.stop_loss_price ELSE lp.take_profit_price

ExitPrice(lp, reason) == lp.current_price

\* _close_position, lines 81-87: the closing Trade is added and flushed
InsertTrade ==
    /\ sl.pc = "locked"
    /\ LET lp == sl.locked_position
           exit_price == ExitPrice(lp, sl.reason)
       IN sl' = [sl EXCEPT !.pc = "trade_flushed",
                           !.trade = [symbol |-> lp.symbol, side |-> "sell",
                                      quantity |-> lp.quantity, price |-> exit_price,
                                      has_pnl |-> TRUE,
                                      pnl |-> (exit_price - lp.average_price) * lp.quantity]]
    /\ UNCHANGED <<balance, total_value, positions, trades, lock_holder, pc, args, result, tx, reported>>
    /\ UNCHANGED outside_ledger

\* _close_position, line 95: the open positions of the portfolio other than the closed one
OtherOpenValue(rows, id) ==
    SumSeq([i \in 1..Len(rows) |->
               IF rows[i].status = "open" /\ i # id
               THEN rows[i].quantity * rows[i].current_price ELSE 0],
           Len(rows))

\* _close_position, lines 88-96
UpdateRows ==
    /\ sl.pc = "trade_flushed"
    /\ LET lp == sl.locked_position
           exit_price == ExitPrice(lp, sl.reason)
           new_balance == sl.balance + lp.quantity * exit_price
       IN sl' = [sl EXCEPT !.pc = "ready",
                           !.balance = new_balance,
                           !.locked_position = [lp EXCEPT !.status = "closed",
                                                          !.exit_price = exit_price,
                                                          !.exit_reason = sl.reason],
                           !.total_value = new_balance + OtherOpenValue(positions, sl.cur)]
    /\ UNCHANGED <<balance, total_value, positions, trades, lock_holder, pc, args, result, tx, reported>>
    /\ UNCHANGED outside_ledger

\* atomic_transaction, line 21: db.commit(); then check_all_positions, line 54 or 62
CloseCommit ==
    /\ sl.pc = "ready"
    /\ balance' = sl.balance
    /\ total_value' = sl.total_value
    /\ positions' = [positions EXCEPT ![sl.cur] = sl.locked_position]
    /\ trades' = Append(trades, sl.trade)
    /\ lock_holder' = IF lock_holder = StopLossId THEN 0 ELSE lock_holder
    /\ sl' = [sl EXCEPT !.pc = "scan", !.closed = sl.closed + 1, !.cur = 0, !.reason = "",
                        !.locked_position = NoPosition, !.balance = 0, !.total_value = 0,
                        !.trade = NoTrade]
    /\ UNCHANGED <<pc, args, result, tx, reported>>
    /\ UNCHANGED outside_ledger

\* atomic_transaction, line 23: db.rollback(); the Trade rows afterwards
TradesAfterCloseRollbackKeepsFlush(t) ==
    IF t.pc \in {"trade_flushed", "ready"} THEN Append(trades, t.trade) ELSE trades

TradesAfterCloseRollback(t) == trades

\* a statement of _close_position, or its commit, raises: lines 22-25 and 98-100,
\* then check_all_positions logs it and goes on, lines 55-57 and 63-65
CloseFail ==
    /\ sl.pc \in {"closing", "pos_locked", "locked", "trade_flushed", "ready"}
    /\ trades' = TradesAfterCloseRollback(sl)
    /\ lock_holder' = IF lock_holder = StopLossId THEN 0 ELSE lock_holder
    /\ sl' = [sl EXCEPT !.pc = "scan", !.reason = "",
                        !.locked_position = NoPosition, !.balance = 0, !.total_value = 0,
                        !.trade = NoTrade,
                        !.log = IF sl.pc \in {"trade_flushed", "ready"}
                                THEN "closure failed after the trade insert"
                                ELSE "closure failed"]
    /\ UNCHANGED <<balance, total_value, positions, pc, args, result, tx, reported>>
    /\ UNCHANGED outside_ledger

SweepNext ==
    \/ SweepStart
    \/ SweepExamine
    \/ SweepEnd
    \/ LockPosition
    \/ LockPortfolio
    \/ InsertTrade
    \/ UpdateRows
    \/ CloseCommit
    \/ CloseFail

LedgerNext ==
    \/ \E c \in LedgerCalls : ExecuteTrade(c, ProtectedOrders)
    \/ SweepNext

LedgerSpec == Init /\ [][LedgerNext]_vars

\* the orders that open a protected position, move its price beyond the take-profit
\* price and trade it again, for the calls that run beside a closure
RaceOrders ==
    {a \in ProtectedOrders :
        \/ a.side = "buy" /\ a.quantity = 1 /\ a.price = 2 /\ a.stop_loss_pct = 50
        \/ a.side = "buy" /\ a.quantity = 1 /\ a.price = 4 /\ a.stop_loss_pct = 0
        \/ a.side = "sell" /\ a.quantity = 1 /\ a.price = 4}

RaceNext ==
    \/ \E c \in Calls : ExecuteTrade(c, RaceOrders)
    \/ SweepNext

RaceSpec == Init /\ [][RaceNext]_vars

\* ======================================================== circuit breaker
\* _check_state, lines 61-67
CheckStateIgnoresTimeout(b, t) ==
    IF b.state = "OPEN" THEN [b EXCEPT !.state = "HALF_OPEN"] ELSE b

CheckState(b, t) ==
    IF b.state = "OPEN" /\ t - b.last_failure_time > recovery_timeout
    THEN [b EXCEPT !.state = "HALF_OPEN"]
    ELSE b

\* _record_failure, lines 69-78
RecordFailureOffByOne(b, t) ==
    [state |-> IF b.state = "CLOSED" /\ b.failures + 1 > failure_threshold THEN "OPEN"
               ELSE IF b.state = "HALF_OPEN" THEN "OPEN"
               ELSE b.state,
     failures |-> b.failures + 1,
     last_failure_time |-> t]

RecordFailureStaysHalfOpen(b, t) ==
    [state |-> IF b.state = "CLOSED" /\ b.failures + 1 >= failure_threshold THEN "OPEN"
               ELSE b.state,
     failures |-> b.failures + 1,
     last_failure_time |-> t]

RecordFailure(b, t) ==
    [state |-> IF b.state = "CLOSED" /\ b.failures + 1 >= failure_threshold THEN "OPEN"
               ELSE IF b.state = "HALF_OPEN" THEN "OPEN"
               ELSE b.state,
     failures |-> b.failures + 1,
     last_failure_time |-> t]

\* _reset, lines 80-84
Reset(b) == [b EXCEPT !.state = "CLOSED", !.failures = 0]

\* the result the wrapped function returns to caller k, or the error it raises: each
\* call has a value of its own
FuncValue(k) == k

\* async_wrapper, line 55: return result
WrapperReturn(returned) == [outcome |-> "result", value |-> returned]

\* async_wrapper, lines 56-58: raise e
WrapperRaiseSwallowsError(e) == [outcome |-> "result", value |-> 0]

WrapperRaise(e) == [outcome |-> "error", value |-> e]

\* async_wrapper, lines 48-52: the state check, then the rejection or the start of the
\* wrapped call, which suspends the coroutine at its await
Call(k) ==
    /\ callers[k].pc = "idle"
    /\ LET checked == CheckState(breaker, now)
       IN /\ breaker' = checked
          /\ IF checked.state = "OPEN"
             THEN /\ callers' = [callers EXCEPT ![k] = [NoCaller EXCEPT
                                                          !.outcome = "rejected"]]
                  /\ history' = history
             ELSE /\ callers' = [callers EXCEPT ![k] = [NoCaller EXCEPT
                                                          !.pc = "calling",
                                                          !.outcome = "pending",
                                                          !.admitted = checked.state,
                                                          !.attempted = TRUE]]
                  /\ history' = IF breaker.state = "OPEN"
                                THEN [history EXCEPT !.trial_successes = 0,
                                                     !.reopened = FALSE]
                                ELSE history
    /\ now' = now
    /\ UNCHANGED outside_breaker

\* async_wrapper, lines 52-55: the wrapped call returns
Return(k) ==
    /\ callers[k].pc = "calling"
    /\ breaker' = IF breaker.state = "HALF_OPEN" THEN Reset(breaker) ELSE breaker
    /\ callers' = [callers EXCEPT ![k] = [NoCaller EXCEPT
                                            !.outcome = WrapperReturn(FuncValue(k)).outcome,
                                            !.value = WrapperReturn(FuncValue(k)).value,
                                            !.attempted = TRUE, !.func = "returned"]]
    /\ history' = [streak |-> 0,
                   trial_successes |-> IF breaker.state = "HALF_OPEN"
                                       THEN history.trial_successes + 1
                                       ELSE history.trial_successes,
                   reopened |-> history.reopened]
    /\ now' = now
    /\ UNCHANGED outside_breaker

\* async_wrapper, lines 56-58: the wrapped call raises
Raise(k) ==
    /\ callers[k].pc = "calling"
    /\ breaker' = RecordFailure(breaker, now)
    /\ callers' = [callers EXCEPT ![k] = [NoCaller EXCEPT
                                            !.outcome = WrapperRaise(FuncValue(k)).outcome,
                                            !.value = WrapperRaise(FuncValue(k)).value,
                                            !.attempted = TRUE, !.func = "raised"]]
    /\ history' = [streak |-> history.streak + 1, trial_successes |-> 0,
                   reopened |-> breaker.state = "HALF_OPEN" \/ history.reopened]
    /\ now' = now
    /\ UNCHANGED outside_breaker

\* time.time() advances
Tick ==
    /\ now < MaxTime
    /\ now' = now + 1
    /\ UNCHANGED <<breaker, callers, history>>
    /\ UNCHANGED outside_breaker

BreakerNext ==
    \/ \E k \in Callers : Call(k) \/ Return(k) \/ Raise(k)
    \/ Tick

BreakerSpec == Init /\ [][BreakerNext]_vars

TradeSpec == Init /\ [][TradeNext]_vars
\* ====================================================== saga coordinator
Reverse(q) == [i \in 1..Len(q) |-> q[Len(q) + 1 - i]]

\* add_step, lines 36-39
AddStep(a) ==
    /\ saga.pc = "idle"
    /\ Len(saga.steps) < MaxSteps
    /\ saga' = [saga EXCEPT !.steps = Append(@, [name |-> Len(@) + 1, args |-> a])]
    /\ UNCHANGED outside_saga

\* execute, lines 41-46: the loop over the plan starts
ExecuteBegin ==
    /\ saga.pc = "idle"
    /\ saga' = [saga EXCEPT !.pc = "running", !.idx = 1]
    /\ UNCHANGED outside_saga

\* the exception a step's action raises
StepFailure(step) == [type |-> "StepFailure", step |-> step.name]

\* the exception a step's compensation raises
CompensationFailure(name) == [type |-> "CompensationFailure", step |-> name]

\* SagaError(f"Saga failed: {e}") raised in the except block, line 57: the message
\* holds the text of e, and e is the error's context
SagaErrorIsOriginal(e) == e

SagaErrorOf(e) == [type |-> "SagaError", message |-> <<"Saga failed: ", e>>, context |-> e]

\* _compensate, line 61: the iteration order
CompensationOrderForward(completed) == completed

CompensationOrder(completed) == Reverse(completed)

\* execute, lines 48-49 and 53-56: what follows the action of the current step
AfterActionMarksFailedStep(g, ok) ==
    IF ok
    THEN [g EXCEPT !.completed_steps = Append(@, g.steps[g.idx]), !.idx = @ + 1]
    ELSE [g EXCEPT !.pc = "compensating",
                   !.cause = StepFailure(g.steps[g.idx]),
                   !.queue = CompensationOrder(Append(g.completed_steps, g.steps[g.idx]))]

AfterAction(g, ok) ==
    IF ok
    THEN [g EXCEPT !.completed_steps = Append(@, g.steps[g.idx]), !.idx = @ + 1]
    ELSE [g EXCEPT !.pc = "compensating",
                   !.cause = StepFailure(g.steps[g.idx]),
                   !.queue = CompensationOrder(g.completed_steps)]

\* execute, line 48: the action of the current step is awaited with the step's args
StepAction(ok) ==
    /\ saga.pc = "running"
    /\ saga.idx <= Len(saga.steps)
    /\ LET step == saga.steps[saga.idx]
           called == [saga EXCEPT !.invoked = Append(@, [what |-> "action",
                                                         step |-> step.name,
                                                         args |-> step.args])]
       IN saga' = AfterAction(called, ok)
    /\ UNCHANGED outside_saga

\* execute, line 51: the plan is exhausted, execute returns
ExecuteReturn ==
    /\ saga.pc = "running"
    /\ saga.idx > Len(saga.steps)
    /\ saga' = [saga EXCEPT !.pc = "returned"]
    /\ UNCHANGED outside_saga

\* _compensate, lines 62-67: what follows the compensation of the head of the queue
AfterCompensationAbortsOnFailure(g, ok) ==
    IF ok
    THEN [g EXCEPT !.queue = Tail(@)]
    ELSE [g EXCEPT !.queue = <<>>, !.reported_critical = @ \cup {Head(g.queue).name}]

AfterCompensation(g, ok) ==
    IF ok
    THEN [g EXCEPT !.queue = Tail(@)]
    ELSE [g EXCEPT !.queue = Tail(@), !.reported_critical = @ \cup {Head(g.queue).name}]

\* _compensate, line 64: the compensation of the next step is awaited with the step's args
CompensateStep(ok) ==
    /\ saga.pc = "compensating"
    /\ saga.queue # <<>>
    /\ LET step == Head(saga.queue)
           called == [saga EXCEPT !.invoked = Append(@, [what |-> "compensation",
                                                         step |-> step.name,
                                                         args |-> step.args])]
       IN saga' = AfterCompensation(called, ok)
    /\ UNCHANGED outside_saga

\* execute, line 57: _compensate returned, the saga error is raised
ExecuteRaise ==
    /\ saga.pc = "compensating"
    /\ saga.queue = <<>>
    /\ saga' = [saga EXCEPT !.pc = "raised", !.raised = SagaErrorOf(saga.cause)]
    /\ UNCHANGED outside_saga

SagaNext ==
    \/ \E a \in StepArgs : AddStep(a)
    \/ ExecuteBegin
    \/ \E ok \in BOOLEAN : StepAction(ok)
    \/ ExecuteReturn
    \/ \E ok \in BOOLEAN : CompensateStep(ok)
    \/ ExecuteRaise

SagaSpec == Init /\ [][SagaNext]_vars

\* execute, lines 41-46, called again on the coordinator after an execute has ended:
\* steps and completed_steps are as the earlier call left them
ExecuteAgain ==
    /\ saga.pc \in {"returned", "raised"}
    /\ saga.reruns < MaxReruns
    /\ saga' = [saga EXCEPT !.pc = "running", !.idx = 1, !.queue = <<>>,
                            !.cause = NoError, !.raised = NoError,
                            !.reruns = @ + 1]
    /\ UNCHANGED outside_saga

SagaRerunNext ==
    \/ SagaNext
    \/ ExecuteAgain

SagaRerunSpec == Init /\ [][SagaRerunNext]_vars

\* ============================================================= event bus
\* the handlers registered per event type, in registration order (subscribe, lines
\* 75-91): on_trade for trade.executed, audit for both types
Handlers == [t \in EventTypes |-> IF t = "trade.executed" THEN <<"on_trade", "audit">>
                                  ELSE <<"audit">>]

\* asyncio.Queue.full() as put_nowait consults it (line 120): a queue made with
\* maxsize <= 0 is never full
QueueFull(q, maxsize) == maxsize > 0 /\ Len(q) >= maxsize

\* asyncio.Queue.get, line 162: the oldest event leaves the queue
QueueGetNewest(q) == [event |-> q[Len(q)], rest |-> SubSeq(q, 1, Len(q) - 1)]

QueueGet(q) == [event |-> Head(q), rest |-> Tail(q)]

\* __init__, lines 68-73
Construct(n) ==
    /\ ~bus.built
    /\ bus' = [bus EXCEPT !.built = TRUE, !.max_queue_size = n]
    /\ UNCHANGED outside_bus

\* publish, lines 113-123: put_nowait, the event is dropped when the queue is full
Publish(t) ==
    /\ bus.built
    /\ bus.published < MaxEvents
    /\ LET event == [id |-> bus.published + 1, type |-> t]
       IN bus' = IF QueueFull(bus.queue, bus.max_queue_size)
                 THEN [bus EXCEPT !.published = @ + 1]
                 ELSE [bus EXCEPT !.published = @ + 1,
                                  !.queue = Append(@, event),
                                  !.accepted = @ \cup {event}]
    /\ UNCHANGED outside_bus

\* start, lines 170-176
Start ==
    /\ bus.built
    /\ ~bus.running
    /\ bus.stop # "waiting"
    /\ bus' = [bus EXCEPT !.running = TRUE, !.worker = "top", !.stop = "none",
                          !.current = NoEvent, !.next_handler = 0]
    /\ UNCHANGED outside_bus

\* _worker, line 160: the loop condition
WorkerCheck ==
    /\ bus.worker = "top"
    /\ bus' = [bus EXCEPT !.worker = IF bus.running THEN "getting" ELSE "exited"]
    /\ UNCHANGED outside_bus

\* _worker, lines 162-163: queue.get() returns an event and its dispatch starts
WorkerGet ==
    /\ bus.worker = "getting"
    /\ bus.queue # <<>>
    /\ LET got == QueueGet(bus.queue)
       IN bus' = [bus EXCEPT !.worker = "dispatching", !.queue = got.rest,
                             !.current = got.event, !.next_handler = 1]
    /\ UNCHANGED outside_bus

\* _worker, lines 162 and 165-166: queue.get() times out on the empty queue
\* _worker, lines 165-166: the TimeoutError is caught and the loop continues
AfterTimeoutLeavesLoop(b) == [b EXCEPT !.worker = "exited"]

AfterTimeout(b) == [b EXCEPT !.worker = "top"]

WorkerTimeout ==
    /\ bus.worker = "getting"
    /\ bus.queue = <<>>
    /\ bus' = AfterTimeout(bus)
    /\ UNCHANGED outside_bus

\* _dispatch, lines 139-155: what follows the call of one handler; its exception is
\* passed to the error handlers, whose own exceptions are dropped
AfterHandlerAbortsOnError(b, ok) ==
    LET h == Handlers[b.current.type][b.next_handler]
    IN IF ok
       THEN [b EXCEPT !.delivered = Append(@, [handler |-> h, id |-> b.current.id,
                                               raised |-> FALSE]),
                      !.next_handler = @ + 1]
       ELSE [b EXCEPT !.delivered = Append(@, [handler |-> h, id |-> b.current.id,
                                               raised |-> TRUE]),
                      !.errors = Append(@, [handler |-> h, id |-> b.current.id]),
                      !.next_handler = Len(Handlers[b.current.type]) + 1]

AfterHandler(b, ok) ==
    LET h == Handlers[b.current.type][b.next_handler]
    IN IF ok
       THEN [b EXCEPT !.delivered = Append(@, [handler |-> h, id |-> b.current.id,
                                               raised |-> FALSE]),
                      !.next_handler = @ + 1]
       ELSE [b EXCEPT !.delivered = Append(@, [handler |-> h, id |-> b.current.id,
                                               raised |-> TRUE]),
                      !.errors = Append(@, [handler |-> h, id |-> b.current.id]),
                      !.next_handler = @ + 1]

\* _dispatch, lines 139-145: the next handler of the event's type is called
InvokeHandler(ok) ==
    /\ bus.worker = "dispatching"
    /\ bus.next_handler <= Len(Handlers[bus.current.type])
    /\ bus' = AfterHandler(bus, ok)
    /\ UNCHANGED outside_bus

\* _dispatch, line 156 and _worker, line 164: every handler was called, task_done
DispatchDone ==
    /\ bus.worker = "dispatching"
    /\ bus.next_handler > Len(Handlers[bus.current.type])
    /\ bus' = [bus EXCEPT !.worker = "top", !.current = NoEvent, !.next_handler = 0]
    /\ UNCHANGED outside_bus

\* stop, lines 178-183: the flag is cleared and the worker task is awaited
Stop ==
    /\ bus.built
    /\ bus.stop = "none"
    /\ bus' = [bus EXCEPT !.running = FALSE,
                          !.stop = IF bus.worker = "none" THEN "returned" ELSE "waiting",
                          !.accepted_at_stop = bus.accepted]
    /\ UNCHANGED outside_bus

\* stop, lines 183 and 186: the worker task ended within the timeout
StopReturn ==
    /\ bus.stop = "waiting"
    /\ bus.worker \in {"exited", "cancelled"}
    /\ bus' = [bus EXCEPT !.stop = "returned"]
    /\ UNCHANGED outside_bus

\* stop, lines 184-186: the timeout passed with the worker still running, it is cancelled
StopTimeout ==
    /\ bus.stop = "waiting"
    /\ bus.worker \in {"top", "getting", "dispatching"}
    /\ bus' = [bus EXCEPT !.stop = "returned", !.worker = "cancelled",
                          !.current = NoEvent, !.next_handler = 0]
    /\ UNCHANGED outside_bus

BusNext ==
    \/ \E n \in QueueSizes : Construct(n)
    \/ \E t \in EventTypes : Publish(t)
    \/ Start
    \/ WorkerCheck
    \/ WorkerGet
    \/ WorkerTimeout
    \/ \E ok \in BOOLEAN : InvokeHandler(ok)
    \/ DispatchDone
    \/ Stop
    \/ StopReturn
    \/ StopTimeout

BusSpec == Init /\ [][BusNext]_vars

\* the steps of the worker task (_worker, lines 158-168, and the _dispatch it awaits)
WorkerStep ==
    \/ WorkerCheck
    \/ WorkerGet
    \/ WorkerTimeout
    \/ \E ok \in BOOLEAN : InvokeHandler(ok)
    \/ DispatchDone

\* the event loop runs the worker task created by start (line 175) whenever it can
\* take a step: queue.get() returns or times out within a second, and a handler that
\* was called returns or raises
BusFairSpec == BusSpec /\ WF_vars(WorkerStep)

\* ========================================================= trailing stop
\* _update_trailing_stop, lines 115 and 124: the stop that follows the current price
TrailingStopCandidate(t) ==
    IF t.quantity > 0
    THEN (t.current_price * (100 - t.trailing_stop_pct)) \div 100
    ELSE (t.current_price * (100 + t.trailing_stop_pct)) \div 100

\* _update_trailing_stop, lines 108-131: the stop-loss price afterwards
UpdateTrailingStopAlwaysMoves(t) ==
    IF t.trailing_stop_pct = 0 THEN t.stop_loss_price ELSE TrailingStopCandidate(t)

UpdateTrailingStop(t) ==
    LET new_stop_loss == TrailingStopCandidate(t)
    IN  IF t.trailing_stop_pct = 0 THEN t.stop_loss_price
        ELSE IF t.quantity > 0
        THEN IF t.stop_loss_price = 0 THEN new_stop_loss
             ELSE IF new_stop_loss > t.stop_loss_price THEN new_stop_loss
             ELSE t.stop_loss_price
        ELSE IF t.stop_loss_price = 0 THEN new_stop_loss
             ELSE IF new_stop_loss < t.stop_loss_price THEN new_stop_loss
             ELSE t.stop_loss_price

\* _update_trailing_stop applied to the position; db.commit() (lines 118, 121, 127,
\* 130) may raise, which is logged (lines 132-133) and leaves the committed stop as it was
AfterTrailingUpdate(t, ok) ==
    LET new == UpdateTrailingStop(t)
    IN  [t EXCEPT !.stop_loss_price = IF ok THEN new ELSE @,
                  !.moved = @ \/ (ok /\ new # t.stop_loss_price),
                  !.checked_price = t.current_price]

\* a position is opened with a trailing percentage
OpenTrailing(q, p, pct, stop, target) ==
    /\ trail.status = "none"
    /\ trail' = [NoTrail EXCEPT !.status = "open", !.quantity = q, !.current_price = p,
                                !.stop_loss_price = stop, !.take_profit_price = target,
                                !.trailing_stop_pct = pct]
    /\ UNCHANGED outside_trail

\* the market data feed writes a new current price
PriceChange(p) ==
    /\ trail.status = "open"
    /\ p # trail.current_price
    /\ trail' = [trail EXCEPT !.current_price = p]
    /\ UNCHANGED outside_trail

\* check_all_positions, lines 47-67, on the position: a trigger closes it (or the
\* closure fails and is logged), otherwise the trailing stop is updated
CheckTrailing(ok) ==
    /\ trail.status = "open"
    /\ trail' = IF TriggerOf(trail) # ""
                THEN IF ok THEN [trail EXCEPT !.status = "closed",
                                              !.exit_reason = TriggerOf(trail)]
                     ELSE trail
                ELSE IF trail.trailing_stop_pct # 0 THEN AfterTrailingUpdate(trail, ok)
                ELSE trail
    /\ UNCHANGED outside_trail

\* update_trailing_stops, lines 158-163
UpdateTrailingStops(ok) ==
    /\ trail.status = "open"
    /\ trail.trailing_stop_pct # 0
    /\ trail' = AfterTrailingUpdate(trail, ok)
    /\ UNCHANGED outside_trail

TrailNext ==
    \/ \E q \in TrailQuantities, p \in TrailPrices, pct \in Percents, stop \in TrailStops,
          target \in {0, MaxPrice} : OpenTrailing(q, p, pct, stop, target)
    \/ \E p \in TrailPrices : PriceChange(p)
    \/ \E ok \in BOOLEAN : CheckTrailing(ok)
    \/ \E ok \in BOOLEAN : UpdateTrailingStops(ok)

TrailSpec == Init /\ [][TrailNext]_vars

\* ========================================================== orchestrator
Signals == [action : SignalActions, confidence : Confidences, asset_class : AssetClasses]

\* _calculate_position_size, lines 140-144, for a confidence in hundredths
CalculatePositionSizeUnclamped(confidence) ==
    (confidence * max_size) \div 200

CalculatePositionSize(confidence) ==
    LET raw_size == (confidence * max_size) \div 200
        capped == IF raw_size < max_size THEN raw_size ELSE max_size
    IN  IF min_size > capped THEN min_size ELSE capped

\* _emit, lines 148-152: the handlers called, in order, when those of failing raise
EmitStopsAtFailure(n, failing) ==
    LET stop == IF failing = {} THEN n
                ELSE CHOOSE i \in failing : \A j \in failing : i <= j
    IN  [i \in 1..stop |-> i]

Emit(n, failing) ==
    [i \in 1..n |-> i]

\* __init__, lines 40-45
NewOrchestrator(ports, mc) ==
    /\ ~orch.built
    /\ orch' = [NoOrchestrator EXCEPT !.built = TRUE, !.trading_ports = ports,
                                      !.min_confidence = mc]
    /\ UNCHANGED outside_orch

\* register_event_handler, line 49
RegisterEventHandler ==
    /\ orch.built
    /\ orch.event_handlers < MaxHandlers
    /\ orch' = [orch EXCEPT !.event_handlers = @ + 1]
    /\ UNCHANGED outside_orch

\* execute_signal, lines 80-83: the call is deferred when the market is not open
DeferredNever(market) ==
    FALSE

Deferred(market) ==
    market = "closed"

\* execute_signal, lines 63-114: the record of the call
CallOf(signal, outcome, failing) ==
    LET quantity == CalculatePositionSize(signal.confidence)
        market == IF outcome = "closed" THEN "closed" ELSE "open"
        call == [NoCall EXCEPT !.signal = signal]
    IN  IF signal.action = "HOLD" THEN [call EXCEPT !.status = "hold"]
        ELSE IF signal.confidence < orch.min_confidence
        THEN [call EXCEPT !.status = "skipped"]
        ELSE IF signal.asset_class \notin orch.trading_ports
        THEN [call EXCEPT !.status = "ValueError"]
        ELSE IF Deferred(market)
        THEN [call EXCEPT !.status = "deferred", !.touched = <<"is_market_open">>,
                          !.market = market]
        ELSE IF outcome = "raised"
        THEN [call EXCEPT !.status = "raised",
                          !.touched = <<"is_market_open", "place_order">>,
                          !.market = market,
                          !.placed = "raised", !.quantity = quantity]
        ELSE [call EXCEPT !.status = "executed",
                          !.touched = <<"is_market_open", "place_order">>,
                          !.market = market,
                          !.placed = "ok", !.quantity = quantity,
                          !.registered = orch.event_handlers, !.failing = failing,
                          !.delivered = Emit(orch.event_handlers, failing)]

\* execute_signal, lines 63-114, when the adapter answers with outcome (its market is
\* closed, its place_order raises, or the order is placed) and the handlers of failing
\* raise
ExecuteSignal(signal, outcome, failing) ==
    LET call == CallOf(signal, outcome, failing)
        a == signal.asset_class
        pair == <<signal.confidence, call.quantity>>
    IN  /\ orch.built
        /\ orch.failures[a] < MaxFailures
        /\ orch' = [orch EXCEPT
              !.last = call,
              !.failures[a] = IF call.placed = "ok" THEN 0
                              ELSE IF call.placed = "raised" THEN @ + 1
                              ELSE @,
              !.sized = IF call.placed = "none" THEN @
                        ELSE IF @ = <<>> THEN <<pair>>
                        ELSE <<@[Len(@)], pair>>]
        /\ UNCHANGED outside_orch

OrchestratorNext ==
    \/ \E ports \in SUBSET AssetClasses, mc \in MinConfidences : NewOrchestrator(ports, mc)
    \/ RegisterEventHandler
    \/ \E signal \in Signals, outcome \in AdapterOutcomes :
          \E failing \in IF outcome = "ok" THEN SUBSET (1..orch.event_handlers) ELSE {{}} :
            ExecuteSignal(signal, outcome, failing)

OrchestratorSpec == Init /\ [][OrchestratorNext]_vars

\* ===================================================== arbitrage detector
Markets == [description : Descriptions, yes_price : {q[1] : q \in Quotes},
            no_price : {q[2] : q \in Quotes}]

QuotedMarkets == {m \in Markets : <<m.yes_price, m.no_price>> \in Quotes}

MarketLists(n) == UNION {[1..k -> QuotedMarkets] : k \in 0..n}

NoOpportunity == [cost |-> 0, profit |-> 0, roi |-> <<0, 1>>, strategy |-> "none"]

\* roi r is below roi q: both are pairs profit, cost with a positive cost
RoiBelow(r, q) == r[1] * q[2] < q[1] * r[2]

\* max(opportunities, key=roi), line 51: the first opportunity of the greatest roi
MaxByRoiTakesFirst(opportunities) ==
    opportunities[1]

MaxByRoi(opportunities) ==
    LET best == CHOOSE i \in DOMAIN opportunities :
                    /\ \A j \in DOMAIN opportunities :
                          ~RoiBelow(opportunities[i].roi, opportunities[j].roi)
                    /\ \A j \in 1..(i - 1) :
                          RoiBelow(opportunities[j].roi, opportunities[i].roi)
    IN  opportunities[best]

\* arbitrage_opportunity, lines 24-51
arbitrage_opportunity(self, other) ==
    LET forward_cost == self.yes_price + other.no_price
        reverse_cost == self.no_price + other.yes_price
        forward == IF forward_cost < 100
                   THEN << [cost |-> forward_cost, profit |-> 100 - forward_cost,
                            roi |-> <<100 - forward_cost, forward_cost>>,
                            strategy |-> "forward"] >>
                   ELSE <<>>
        reverse == IF reverse_cost < 100
                   THEN << [cost |-> reverse_cost, profit |-> 100 - reverse_cost,
                            roi |-> <<100 - reverse_cost, reverse_cost>>,
                            strategy |-> "reverse"] >>
                   ELSE <<>>
        opportunities == forward \o reverse
    IN  IF opportunities = <<>> THEN NoOpportunity ELSE MaxByRoi(opportunities)

\* str.lower() and str.strip(), lines 26-27
Lower(c) == IF c = "F" THEN "f" ELSE IF c = "R" THEN "r" ELSE c

RECURSIVE Strip(_)
Strip(d) ==
    IF d = <<>> THEN d
    ELSE IF Head(d) = " " THEN Strip(Tail(d))
    ELSE IF d[Len(d)] = " " THEN Strip(SubSeq(d, 1, Len(d) - 1))
    ELSE d

Normalise(d) == Strip([i \in DOMAIN d |-> Lower(d[i])])

\* SequenceMatcher.find_longest_match: the longest common block, the earliest one in
\* a and then in b, as start in a, start in b, length (length 0: none)
FindLongestMatch(a, b) ==
    LET blocks == {t \in (1..Len(a)) \X (1..Len(b)) \X (1..Len(a)) :
                      /\ t[1] + t[3] - 1 <= Len(a)
                      /\ t[2] + t[3] - 1 <= Len(b)
                      /\ SubSeq(a, t[1], t[1] + t[3] - 1) = SubSeq(b, t[2], t[2] + t[3] - 1)}
    IN  IF blocks = {} THEN <<1, 1, 0>>
        ELSE CHOOSE t \in blocks :
                \A u \in blocks :
                    \/ u[3] < t[3]
                    \/ u[3] = t[3] /\ t[1] < u[1]
                    \/ u[3] = t[3] /\ t[1] = u[1] /\ t[2] <= u[2]

\* SequenceMatcher.get_matching_blocks: the number of matched characters
RECURSIVE MatchingCharacters(_, _)
MatchingCharacters(a, b) ==
    LET t == FindLongestMatch(a, b)
    IN  IF t[3] = 0 THEN 0
        ELSE t[3]
             + MatchingCharacters(SubSeq(a, 1, t[1] - 1), SubSeq(b, 1, t[2] - 1))
             + MatchingCharacters(SubSeq(a, t[1] + t[3], Len(a)),
                                  SubSeq(b, t[2] + t[3], Len(b)))

\* SequenceMatcher.ratio as the pair 2 x matches, total length (1.0 for two empty
\* descriptions)
Ratio(a, b) ==
    IF Len(a) + Len(b) = 0 THEN <<1, 1>>
    ELSE <<2 * MatchingCharacters(a, b), Len(a) + Len(b)>>

\* _markets_match, lines 26-28: the similarity of each pair of descriptions
Similarity == [desc1 \in Descriptions, desc2 \in Descriptions |->
                  Ratio(Normalise(desc1), Normalise(desc2))]

\* _markets_match, line 29: similarity > 0.8
MarketsMatchAnyDescription(market1, market2) ==
    TRUE

MarketsMatch(market1, market2) ==
    LET similarity == Similarity[market1.description, market2.description]
    IN  similarity[1] * 10 > 8 * similarity[2]

\* find_opportunities, line 19: arb and arb["roi"] >= self.min_roi
PassesFilter(a, min_roi) ==
    a.strategy # "none" /\ a.roi[1] * 100 >= min_roi * a.roi[2]

\* find_opportunities, lines 14-20: the pairs in the order of the two loops
PairsOf(kalshi_markets, polymarket_markets) ==
    [n \in 1..(Len(kalshi_markets) * Len(polymarket_markets)) |->
        [k_market |-> kalshi_markets[((n - 1) \div Len(polymarket_markets)) + 1],
         p_market |-> polymarket_markets[((n - 1) % Len(polymarket_markets)) + 1]]]

\* __init__, lines 8-9
NewDetector(min_roi) ==
    /\ arb.pc = "none"
    /\ arb' = [NoDetector EXCEPT !.pc = "built", !.min_roi = min_roi]
    /\ UNCHANGED outside_arb

\* find_opportunities, lines 11-23
FindOpportunities(kalshi_markets, polymarket_markets) ==
    LET pairs == PairsOf(kalshi_markets, polymarket_markets)
        matched == SelectSeq(pairs, LAMBDA r : MarketsMatch(r.k_market, r.p_market))
        found == [n \in DOMAIN matched |->
                     arbitrage_opportunity(matched[n].k_market, matched[n].p_market)]
    IN  /\ arb.pc = "built"
        /\ arb' = [arb EXCEPT !.pc = "scanned",
                               !.kalshi_markets = kalshi_markets,
                               !.polymarket_markets = polymarket_markets,
                               !.matched = [n \in DOMAIN matched |->
                                               [k_market |-> matched[n].k_market,
                                                p_market |-> matched[n].p_market,
                                                arb |-> found[n]]],
                               !.opportunities =
                                   SelectSeq(found, LAMBDA a : PassesFilter(a, arb.min_roi))]
        /\ UNCHANGED outside_arb

\* the lists a built detector that has not scanned yet is given
ScannedLists(n) == IF arb.pc = "built" THEN MarketLists(n) ELSE {}

ArbitrageNext ==
    \/ \E min_roi \in MinRois : NewDetector(min_roi)
    \/ \E kalshi_markets \in ScannedLists(1), polymarket_markets \in ScannedLists(MaxMarkets) :
          FindOpportunities(kalshi_markets, polymarket_markets)

ArbitrageSpec == Init /\ [][ArbitrageNext]_vars

\* ====================================================== idempotency layer
\* _get_from_cache, lines 45-51: the entry returned (NoEntry for None)
GetFromCacheAlwaysMisses(cache, key, t) ==
    NoEntry

GetFromCache(cache, key, t) ==
    IF ~cache[key].present THEN NoEntry
    ELSE IF t > cache[key].expiry THEN NoEntry
    ELSE cache[key]

\* _get_from_cache, lines 48-49: an expired entry is deleted
CacheAfterGet(cache, key, t) ==
    IF cache[key].present /\ t > cache[key].expiry
    THEN [cache EXCEPT ![key] = NoEntry]
    ELSE cache

\* _set_to_cache, line 54
SetToCache(cache, key, value, t) ==
    [cache EXCEPT ![key] = [present |-> TRUE, result |-> value, expiry |-> t + ttl_seconds]]

\* the result operation_func returns to request r
OperationResult(r) == r

\* process, lines 34-40: up to the await of operation_func, or to the return of the
\* cached result
Process(r, key) ==
    LET cached == GetFromCache(idem.cache, key, idem.time)
    IN  /\ idem.requests[r].pc = "idle"
        /\ idem.calls < MaxProcessCalls
        /\ idem' = IF key = ""
                   THEN [idem EXCEPT !.requests[r] = [NoRequest EXCEPT !.pc = "running"],
                                     !.executions[key] = @ + 1,
                                     !.calls = @ + 1, !.started = r]
                   ELSE IF cached.present
                   THEN [idem EXCEPT !.requests[r] = [NoRequest EXCEPT !.key = key,
                                                         !.outcome = "cached",
                                                         !.value = cached.result],
                                     !.cache = CacheAfterGet(idem.cache, key, idem.time),
                                     !.calls = @ + 1, !.started = r]
                   ELSE [idem EXCEPT !.requests[r] = [NoRequest EXCEPT !.pc = "running",
                                                         !.key = key],
                                     !.cache = CacheAfterGet(idem.cache, key, idem.time),
                                     !.executions[key] = @ + 1,
                                     !.calls = @ + 1, !.started = r]
        /\ UNCHANGED outside_idem

\* process, lines 35 and 40-42: operation_func returns
OperationReturn(r) ==
    LET key == idem.requests[r].key
    IN  /\ idem.requests[r].pc = "running"
        /\ idem' = [idem EXCEPT
              !.requests[r] = [@ EXCEPT !.pc = "idle", !.outcome = "executed",
                                        !.value = OperationResult(r)],
              !.cache = IF key = "" THEN @
                        ELSE SetToCache(@, key, OperationResult(r), idem.time),
              !.last_success[key] = IF key = "" THEN @ ELSE idem.time]
        /\ UNCHANGED outside_idem

\* process, lines 35 and 40: operation_func raises and process raises with it
OperationRaise(r) ==
    /\ idem.requests[r].pc = "running"
    /\ idem' = [idem EXCEPT !.requests[r] = [@ EXCEPT !.pc = "idle", !.outcome = "raised"]]
    /\ UNCHANGED outside_idem

\* time.time() advances
ClockTick ==
    /\ idem.time < MaxClock
    /\ idem' = [idem EXCEPT !.time = @ + 1]
    /\ UNCHANGED outside_idem

IdempotencyNext ==
    \/ \E r \in Requests, key \in IdemKeys : Process(r, key)
    \/ \E r \in Requests : OperationReturn(r) \/ OperationRaise(r)
    \/ ClockTick

IdempotencySpec == Init /\ [][IdempotencyNext]_vars

Next ==
    \/ IdempotencyNext
    \/ RaceNext
    \/ SagaRerunNext
    \/ LedgerNext \/ BreakerNext \/ SagaNext \/ BusNext \/ TrailNext \/ OrchestratorNext
    \/ ArbitrageNext

Spec == Init /\ [][Next]_vars

\* =========================================================== ledger claims
\* C1: for any set of concurrent execute_trade calls on the portfolio, the committed
\* balance is the initial balance minus the cost of the buys that reported success
\* plus the proceeds of the sells that reported success, and there are as many
\* committed Trade rows as calls that reported success.
C1_BalanceMatchesReports ==
    /\ balance = InitialBalance - reported.buy_cost + reported.sell_proceeds
    /\ Len(trades) = reported.successes

\* C1 witness: every call is over, a buy and a sell succeeded and one call lost the lock
C1_Witness ==
    /\ \A c \in Calls : pc[c] = "done"
    /\ reported.buy_cost > 0 /\ reported.sell_proceeds > 0
    /\ \E c \in Calls : result[c].error = "lock not available"

\* C2: at most one execute_trade is inside the critical section; a call that finds
\* the Portfolio row locked ends at once with DB_TRANSACTION_FAILED, and a call that
\* is over is never started again.
C2_ExclusiveNoWait ==
    [][ /\ Cardinality({c \in Calls : pc'[c] \in CriticalPcs}) <= 1
        /\ \A c \in Calls :
            /\ (pc[c] = "validated" /\ lock_holder # 0 /\ pc'[c] # pc[c])
                  => /\ pc'[c] = "done"
                     /\ result'[c] = TradingError("DB_TRANSACTION_FAILED", "lock not available")
                     /\ UNCHANGED <<balance, total_value, positions, trades, lock_holder>>
            /\ pc[c] = "done" => (pc'[c] = "done" /\ result'[c] = result[c]) ]_vars

\* C2 witness: a call was refused the lock while another call is in the critical section
C2_Witness ==
    \E c, d \in Calls :
        /\ pc[c] = "done" /\ result[c].error = "lock not available"
        /\ pc[d] \in CriticalPcs /\ lock_holder = d

\* C3: a call that fails inside the critical section (the commit included) leaves
\* balance, total value, positions and trades as they were and reports an error.
C3_FailureRollsBack ==
    [][ \A c \in Calls :
          (pc[c] \in CriticalPcs /\ pc'[c] = "done" /\ result'[c].code # "success")
             => /\ UNCHANGED <<balance, total_value, positions, trades>>
                /\ result'[c].code = "DB_TRANSACTION_FAILED" ]_vars

\* C3 witness: the commit of a call failed after its writes were flushed
C3_Witness ==
    \E c \in Calls :
        /\ result[c].error = "commit failed"
        /\ balance = InitialBalance /\ trades = <<>> /\ positions = <<>>

\* C4: the committed balance is never below the minimum-balance floor and never
\* negative.
C4_BalanceFloor == balance >= min_balance /\ balance >= 0

\* C5: no position quantity is negative, and every committed sell reduced an open
\* position (its Trade carries the realised pnl of that position).
C5_SellBacked ==
    /\ \A i \in 1..Len(positions) : positions[i].quantity >= 0
    /\ \A i \in 1..Len(trades) : trades[i].side = "sell" => trades[i].has_pnl
\* C6: a position closure that fails after the closing Trade was inserted and before
\* the commit leaves no Trade and no status change: the position is as it was (open),
\* the balance and total value are unchanged and no Trade row was added.
C6_ClosureAllOrNothing ==
    [][ (sl.pc \in {"trade_flushed", "ready"} /\ sl'.pc = "scan" /\ sl'.closed = sl.closed)
           => /\ UNCHANGED <<balance, total_value, positions, trades>>
              /\ positions[sl.cur].status = "open" => positions'[sl.cur].status = "open" ]_vars

\* C6 witness: a closure failed after its Trade insert, the triggered position is still
\* open and no sell Trade exists
C6_Witness ==
    /\ sl.log = "closure failed after the trade insert"
    /\ \E i \in 1..Len(positions) :
          positions[i].status = "open" /\ TriggerOf(positions[i]) # ""
    /\ \A i \in 1..Len(trades) : trades[i].side # "sell"
    /\ total_value = balance + TotalPositionValue(positions)

\* C21: as many TradeExecuted events have been published as trades have committed:
\* one per successful commit, none before it and none for a rejected or rolled-back
\* call.
C21_EventPerCommit == bus.published = reported.successes

\* C22: every committed open Position has a quantity above zero, and no two committed
\* open Positions have the same symbol.
C22_OpenPositionsWellFormed ==
    /\ \A i \in 1..Len(positions) : positions[i].status = "open" => positions[i].quantity > 0
    /\ \A i, j \in 1..Len(positions) :
          (/\ positions[i].status = "open" /\ positions[j].status = "open"
           /\ positions[i].symbol = positions[j].symbol) => i = j

\* C22 witness: a sell took the whole quantity of the open position, which left it
\* closed with quantity zero, and no open position remains
C22_Witness ==
    /\ Len(positions) = 1
    /\ positions[1].status = "closed" /\ positions[1].quantity = 0
    /\ positions[1].exit_reason = ""
    /\ Len(trades) = 2 /\ trades[2].side = "sell" /\ trades[2].has_pnl

\* C23: a call that ends in validation touched no lock and left balance, total value,
\* positions and trades unchanged, and what it raised is a validation failure.
C23_ValidationRejectsFirst ==
    [][ \A c \in Calls :
          (pc[c] = "idle" /\ pc'[c] = "done")
             => /\ UNCHANGED <<balance, total_value, positions, trades, lock_holder, tx>>
                /\ result'[c].code \in {"TRADE_VALIDATION_FAILED", "VALIDATION_ERROR"} ]_vars

\* C24: a call that failed on a storage error inside the critical section reports a code
\* or a message other than those of a call that was refused the lock.
C24_PersistenceFailureDistinct ==
    \A c, d \in Calls :
        (/\ result[c].error \in {"statement failed", "commit failed"}
         /\ result[d].error = "lock not available")
           => <<result[c].code, result[c].message>> # <<result[d].code, result[d].message>>

\* C25: the sweep starts the closure of a position exactly when the price it read for
\* it is at or below the stop-loss price or at or above the take-profit price; a closure
\* that commits uses the position's current price as the price of the closing Trade, as
\* the exit price and as the price of the proceeds credited to the balance, and records
\* the trigger as the exit reason.
C25_ClosesAtObservedPrice ==
    [][ /\ (sl.pc = "scan" /\ sl.queue # <<>> /\ sl' # sl)
              => LET p == sl.snapshot[Head(sl.queue)]
                     triggered == \/ (p.stop_loss_price # 0
                                       /\ p.current_price <= p.stop_loss_price)
                                  \/ (p.take_profit_price # 0
                                       /\ p.current_price >= p.take_profit_price)
                 IN IF triggered
                    THEN sl'.pc = "closing" /\ sl'.cur = Head(sl.queue)
                    ELSE sl'.pc = "scan" /\ positions' = positions
        /\ (sl.pc = "ready" /\ sl'.closed = sl.closed + 1)
              => LET before == positions[sl.cur]
                     after == positions'[sl.cur]
                 IN /\ after.status = "closed"
                    /\ after.exit_price = before.current_price
                    /\ after.exit_reason = TriggerOf(sl.snapshot[sl.cur])
                    /\ after.exit_reason # ""
                    /\ trades' = Append(trades, trades'[Len(trades')])
                    /\ trades'[Len(trades')].price = before.current_price
                    /\ trades'[Len(trades')].quantity = before.quantity
                    /\ balance' = balance + before.quantity * before.current_price
        /\ \A i \in 1..Len(positions) :
              (positions[i].exit_reason = "" /\ positions'[i].exit_reason # "")
                 => (sl.pc = "ready" /\ sl.cur = i) ]_vars

\* C25 witness: the price of a position gapped above its take-profit price and the
\* sweep closed it at that price, not at the threshold
C25_Witness ==
    \E i \in 1..Len(positions) :
        /\ positions[i].status = "closed"
        /\ positions[i].exit_reason = "take_profit"
        /\ positions[i].exit_price > positions[i].take_profit_price
        /\ trades[Len(trades)].price = positions[i].exit_price
        /\ trades[Len(trades)].has_pnl

\* C26: a step that leaves the position open never lowers the stop of a long position
\* and never raises the stop of a short position that has one; a stop that changes is
\* the stop that follows the current price (price x (1 - pct) for a long position,
\* price x (1 + pct) for a short one).
C26_TrailingStopMonotone ==
    [][ (trail.status = "open" /\ trail'.status = "open")
           => /\ trail.quantity > 0
                    => /\ trail'.stop_loss_price >= trail.stop_loss_price
                       /\ trail'.stop_loss_price # trail.stop_loss_price
                             => trail'.stop_loss_price
                                   = (trail.current_price * (100 - trail.trailing_stop_pct))
                                        \div 100
              /\ trail.quantity < 0
                    => /\ trail.stop_loss_price # 0
                             => trail'.stop_loss_price <= trail.stop_loss_price
                       /\ trail'.stop_loss_price # trail.stop_loss_price
                             => trail'.stop_loss_price
                                   = (trail.current_price * (100 + trail.trailing_stop_pct))
                                        \div 100 ]_vars

\* C26 witness: the stop of a long position was raised, then the price fell to a level
\* whose trailing stop lies below the stop, the update ran at that price and the stop
\* stayed
C26_Witness ==
    /\ trail.status = "open" /\ trail.quantity > 0
    /\ trail.moved
    /\ trail.checked_price = trail.current_price
    /\ TrailingStopCandidate(trail) < trail.stop_loss_price

\* C36: the closure and an execute_trade call never wait for each other: there is no
\* state in which the closure holds the Position row lock and waits for the Portfolio
\* row lock while the call that holds the Portfolio row lock waits for that Position
\* row.
C36_NoCircularWait ==
    ~ \E c \in Calls :
          /\ sl.pc = "pos_locked"
          /\ lock_holder = c
          /\ pc[c] = "position_set"
          /\ tx[c].pos_id = sl.cur

\* ========================================================= breaker claims
Elapsed == now - breaker.last_failure_time

\* C7: the failure that completes a run of failure_threshold consecutive failing calls
\* leaves the breaker OPEN with last_failure_time set to the time of that failure, and
\* a call made right after it (no time elapsed) is rejected without starting the
\* wrapped call.
C7_OpensAtThreshold ==
    [][ /\ (history'.streak = history.streak + 1 /\ history'.streak >= failure_threshold)
              => (breaker'.state = "OPEN" /\ breaker'.last_failure_time = now)
        /\ \A k \in Callers :
              (/\ breaker.state = "OPEN" /\ Elapsed = 0
               /\ callers[k].pc = "idle" /\ callers'[k] # callers[k])
                 => /\ callers'[k] = [NoCaller EXCEPT !.outcome = "rejected"]
                    /\ breaker' = breaker ]_vars

\* C7 witness: failure_threshold failures in a row opened the breaker and a call was
\* rejected in the same instant
C7_Witness ==
    /\ now = 1
    /\ breaker = [state |-> "OPEN", failures |-> failure_threshold, last_failure_time |-> 1]
    /\ history.streak = failure_threshold
    /\ \E k \in Callers : callers[k].outcome = "rejected"

C9_SingleTrial ==
    Cardinality({k \in Callers : callers[k].pc = "calling"
                                   /\ callers[k].admitted = "HALF_OPEN"}) <= 1

\* C10: the breaker goes from HALF_OPEN to CLOSED only with the success that
\* completes success_threshold consecutive successes, and then the failure count is 0.
C10_ClosesAtSuccessThreshold ==
    [][ (breaker.state = "HALF_OPEN" /\ breaker'.state = "CLOSED")
           => (history'.trial_successes >= success_threshold /\ breaker'.failures = 0) ]_vars

\* C11: a call that fails while the breaker is HALF_OPEN leaves the breaker OPEN with
\* last_failure_time set to the time of that failure, and while no more than
\* recovery_timeout has elapsed since then a call is rejected without starting the
\* wrapped call.
C11_HalfOpenFailureReopens ==
    [][ /\ (breaker.state = "HALF_OPEN"
            /\ \E k \in Callers : callers[k].pc = "calling" /\ callers'[k].outcome = "error")
              => /\ breaker'.state = "OPEN"
                 /\ breaker'.last_failure_time = now
                 /\ history'.reopened
        /\ \A k \in Callers :
              (/\ history.reopened /\ Elapsed <= recovery_timeout
               /\ callers[k].pc = "idle" /\ callers'[k] # callers[k])
                 => /\ callers'[k] = [NoCaller EXCEPT !.outcome = "rejected"]
                    /\ breaker' = breaker ]_vars

\* C11 witness: the breaker was re-opened by a failure in HALF_OPEN and has been OPEN
\* since; every caller, the one whose trial failed included, called again within the
\* timeout and was rejected
C11_Witness ==
    /\ history.reopened
    /\ breaker.state = "OPEN"
    /\ Elapsed <= recovery_timeout
    /\ \A k \in Callers : callers[k].outcome = "rejected"

C37_OpensOnConsecutiveFailuresOnly ==
    [][ (breaker.state = "CLOSED" /\ breaker'.state = "OPEN")
           => history'.streak >= failure_threshold ]_vars

\* ============================================================ saga claims
\* the compensations and the actions invoked so far, in invocation order
Compensations == SelectSeq(saga.invoked, LAMBDA r : r.what = "compensation")
Actions == SelectSeq(saga.invoked, LAMBDA r : r.what = "action")

\* the failures whose text the message of a saga error holds
FailuresIn(err) == {err.message[i] : i \in 2..Len(err.message)}

\* C12: after the action of step k failed, the compensations invoked are those of
\* step k-1, then k-2, ... down to step 1, each once and each with the arguments of
\* its own step; when execute raises, all k-1 of them have been invoked.
C12_ReverseOrder ==
    saga.pc \in {"compensating", "raised"} =>
        LET k == saga.cause.step
        IN /\ Len(Compensations) <= k - 1
           /\ \A i \in 1..Len(Compensations) :
                  Compensations[i] = [what |-> "compensation", step |-> k - i,
                                      args |-> saga.steps[k - i].args]
           /\ saga.pc = "raised" => Len(Compensations) = k - 1

\* C12 witness: step 3 failed and the compensations of steps 2 and 1, registered with
\* different arguments, were invoked
C12_Witness ==
    /\ saga.pc = "raised"
    /\ saga.cause.step = 3
    /\ saga.steps[1].args # saga.steps[2].args
    /\ Len(Compensations) = 2

\* C13: a compensation is invoked only for a step whose action completed; once the
\* action of step k failed, no compensation of step k and no action or compensation
\* of a later step is invoked; a run in which every action succeeded invokes no
\* compensation and returns without an error.
C13_OnlyCompletedCompensated ==
    /\ \A i \in 1..Len(saga.invoked) :
          saga.invoked[i].what = "compensation"
             => /\ \E j \in 1..Len(saga.completed_steps) :
                      saga.completed_steps[j].name = saga.invoked[i].step
                /\ \E j \in 1..(i - 1) :
                      saga.invoked[j] = [saga.invoked[i] EXCEPT !.what = "action"]
    /\ saga.cause # NoError
          => \A i \in 1..Len(saga.invoked) :
                /\ saga.invoked[i].step <= saga.cause.step
                /\ saga.invoked[i].what = "compensation"
                      => saga.invoked[i].step < saga.cause.step
    /\ saga.pc \in {"running", "returned"} => Compensations = <<>>
    /\ saga.pc = "returned"
          => /\ saga.raised = NoError /\ saga.cause = NoError
             /\ saga.completed_steps = saga.steps
             /\ Len(Actions) = Len(saga.steps)

\* C13 witness: in a saga of three steps the action of step 2 failed; the actions of
\* steps 1 and 2 and the compensation of step 1 are all that was invoked
C13_Witness ==
    /\ saga.pc = "raised"
    /\ Len(saga.steps) = 3
    /\ saga.cause.step = 2
    /\ Len(saga.invoked) = 3
    /\ saga.invoked[3].what = "compensation" /\ saga.invoked[3].step = 1

\* C14: when execute raises, the compensation of every completed step has been
\* invoked, whichever compensations raised.
C14_CompensationFailureIsolated ==
    saga.pc = "raised" =>
        \A i \in 1..Len(saga.completed_steps) :
            \E j \in 1..Len(saga.invoked) :
                saga.invoked[j] = [what |-> "compensation",
                                   step |-> saga.completed_steps[i].name,
                                   args |-> saga.completed_steps[i].args]

\* C14 witness: step 3 failed, the compensations of steps 2 and 1 both raised and both
\* were invoked
C14_Witness ==
    /\ saga.pc = "raised"
    /\ saga.cause.step = 3
    /\ saga.reported_critical = {1, 2}
    /\ Len(Compensations) = 2

\* C15: execute raises exactly when the action of a step failed; what it raises is a
\* SagaError, of another type than the step's failure, that carries that failure, and
\* it is raised only when a compensation has been invoked for every completed step.
C15_SagaErrorAfterCompensation ==
    /\ saga.raised # NoError <=> saga.pc = "raised"
    /\ saga.cause # NoError <=> saga.pc \in {"compensating", "raised"}
    /\ saga.pc = "raised"
          => /\ saga.raised.type = "SagaError"
             /\ saga.raised.type # saga.cause.type
             /\ saga.cause = StepFailure(saga.steps[saga.idx])
             /\ saga.raised.context = saga.cause
             /\ saga.cause \in FailuresIn(saga.raised)
             /\ Len(Compensations) = Len(saga.completed_steps)

\* C15 witness: in a saga of two steps the action of step 2 failed and the saga error
\* was raised after the compensation of step 1 had raised
C15_Witness ==
    /\ saga.pc = "raised"
    /\ Len(saga.steps) = 2
    /\ saga.raised = SagaErrorOf(StepFailure(saga.steps[2]))
    /\ saga.reported_critical = {1}

\* C16: the saga error execute raises names every compensation that failed.
C16_ErrorNamesFailedCompensations ==
    saga.pc = "raised" =>
        \A n \in saga.reported_critical : CompensationFailure(n) \in FailuresIn(saga.raised)

\* C39: over all the execute calls of the coordinator, the compensation of a step has
\* been invoked no more often than the step's action has completed (each completion
\* appends the step to completed_steps).
C39_CompensationsWithinCompletions ==
    \A n \in 1..Len(saga.steps) :
        Len(SelectSeq(Compensations, LAMBDA r : r.step = n))
            <= Len(SelectSeq(saga.completed_steps, LAMBDA st : st.name = n))

\* ======================================================= event bus claims
\* what one handler was called with, in call order
DeliveredTo(h) == SelectSeq(bus.delivered, LAMBDA r : r.handler = h)

\* every handler registered for the type of the event was called with it
Dispatched(b, event) ==
    \A i \in 1..Len(Handlers[event.type]) :
        \E j \in 1..Len(b.delivered) :
            /\ b.delivered[j].handler = Handlers[event.type][i]
            /\ b.delivered[j].id = event.id

\* C17: a handler that raises is followed by the next handler registered for the type
\* of the event; a dispatch that is not cut by the cancellation of the worker ends with
\* every handler of the type called and the worker back at the top of its loop; the
\* worker leaves its loop only when the running flag is cleared.
C17_HandlerFailureIsolated ==
    [][ /\ (bus.worker = "dispatching" /\ bus'.worker # "dispatching")
              => \/ (bus.stop = "waiting" /\ bus'.worker = "cancelled")
                 \/ (bus'.worker = "top" /\ Dispatched(bus, bus.current))
        /\ (/\ bus.worker = "dispatching"
            /\ Len(bus'.delivered) = Len(bus.delivered) + 1
            /\ bus'.delivered[Len(bus'.delivered)].raised)
              => /\ bus'.worker = "dispatching"
                 /\ bus'.next_handler = bus.next_handler + 1
                 /\ bus'.queue = bus.queue
        /\ (bus.worker # "exited" /\ bus'.worker = "exited")
              => (bus.worker = "top" /\ ~bus.running) ]_vars

\* C17 witness: on_trade raised for event 1 and for event 2, and audit, registered
\* after it, was called with both events
C17_Witness ==
    /\ Len(bus.delivered) >= 4
    /\ bus.delivered[1] = [handler |-> "on_trade", id |-> 1, raised |-> TRUE]
    /\ bus.delivered[2] = [handler |-> "audit", id |-> 1, raised |-> FALSE]
    /\ bus.delivered[3] = [handler |-> "on_trade", id |-> 2, raised |-> TRUE]
    /\ bus.delivered[4] = [handler |-> "audit", id |-> 2, raised |-> FALSE]
    /\ Len(bus.errors) = 2

\* C18: the queue never holds more than max_queue_size events.
C18_QueueBounded == bus.built => Len(bus.queue) <= bus.max_queue_size

C20_StopDrains ==
    (bus.stop = "returned" /\ bus.worker # "none") =>
        /\ \A i \in 1..Len(bus.queue) : bus.queue[i] \notin bus.accepted_at_stop
        /\ \A event \in bus.accepted_at_stop : Dispatched(bus, event)

\* the event waits in the queue
Queued(b, id) == \E i \in 1..Len(b.queue) : b.queue[i].id = id

\* how often handler h was called with event id
TimesDelivered(b, h, id) ==
    Cardinality({j \in 1..Len(b.delivered) :
                    b.delivered[j].handler = h /\ b.delivered[j].id = id})

C27_OpenBreakerBlocksPlaceOrder ==
    [][ \A a \in AssetClasses :
            orch.failures[a] >= failure_threshold
               => orch'.failures[a] = orch.failures[a] ]_vars

\* C28: a signal whose action is HOLD or whose confidence is below min_confidence
\* returns the status skipped, calls no adapter method and delivers no event.
C28_HoldOrLowConfidenceSkipped ==
    (orch.last.status # "none"
        /\ (orch.last.signal.action = "HOLD"
              \/ orch.last.signal.confidence < orch.min_confidence))
       => /\ orch.last.status = "skipped"
          /\ orch.last.touched = <<>>
          /\ orch.last.delivered = <<>>

\* C29: after place_order succeeded every registered handler is called with the event,
\* also after a handler that raised, and execute_signal returns executed; when
\* place_order did not succeed no handler is called.
C29_EventReachesEveryHandler ==
    /\ orch.last.placed = "ok"
          => /\ orch.last.delivered = [i \in 1..orch.last.registered |-> i]
             /\ orch.last.status = "executed"
    /\ orch.last.placed # "ok" => orch.last.delivered = <<>>

\* C29 witness: an order was placed, the first of two handlers raised and the second
\* was called all the same
C29_Witness ==
    /\ orch.last.placed = "ok"
    /\ orch.last.status = "executed"
    /\ orch.last.registered = 2
    /\ 1 \in orch.last.failing
    /\ Len(orch.last.delivered) = 2

\* C30 as stated: every computed size lies within [min_size, max_size] and of two
\* confidences the greater one gets the strictly greater size.
C30_SizeStrictlyIncreasing ==
    \A i, j \in DOMAIN orch.sized :
        /\ orch.sized[i][2] >= min_size /\ orch.sized[i][2] <= max_size
        /\ orch.sized[i][1] < orch.sized[j][1] => orch.sized[i][2] < orch.sized[j][2]

\* C30 amended: every computed size lies within [min_size, max_size], of two
\* confidences the greater one never gets the smaller size, and it gets the strictly
\* greater size when its raw size confidence x 0.5 x max_size is above min_size.
C30_SizeNonDecreasing ==
    \A i, j \in DOMAIN orch.sized :
        /\ orch.sized[i][2] >= min_size /\ orch.sized[i][2] <= max_size
        /\ orch.sized[i][1] < orch.sized[j][1]
              => /\ orch.sized[i][2] <= orch.sized[j][2]
                 /\ (orch.sized[j][1] * max_size) \div 200 > min_size
                       => orch.sized[i][2] < orch.sized[j][2]

\* C30 witness: two sizes were computed, the first at the floor min_size and the
\* second, for a greater confidence, above it
C30_Witness ==
    /\ Len(orch.sized) = 2
    /\ orch.sized[1][1] < orch.sized[2][1]
    /\ orch.sized[1][2] = min_size
    /\ orch.sized[2][2] > min_size

\* C33: a call whose adapter reported the market closed returns deferred, has called
\* is_market_open only, has placed no order and has delivered no event.
C33_ClosedMarketDefers ==
    orch.last.market = "closed"
       => /\ orch.last.status = "deferred"
          /\ orch.last.touched = <<"is_market_open">>
          /\ orch.last.placed = "none"
          /\ orch.last.quantity = 0
          /\ orch.last.delivered = <<>>

\* C33 witness: a BUY signal above min_confidence for a registered adapter, with a
\* handler registered, was deferred
C33_Witness ==
    /\ orch.last.status = "deferred"
    /\ orch.last.signal.action = "BUY"
    /\ orch.last.signal.asset_class \in orch.trading_ports
    /\ orch.event_handlers > 0

ReachesThreshold(k, p) ==
    Similarity[k.description, p.description][1] * 10
        >= 8 * Similarity[k.description, p.description][2]

\* C32: every pair the detector matched has a similarity of at least 0.8, and every
\* opportunity it returns is a direction of such a pair of the two lists whose roi is
\* at least min_roi; there are no more opportunities than such pairs.
C32_OnlySimilarPairsAboveMinRoi ==
    /\ \A n \in DOMAIN arb.matched :
          ReachesThreshold(arb.matched[n].k_market, arb.matched[n].p_market)
    /\ \A n \in DOMAIN arb.opportunities :
          LET o == arb.opportunities[n]
          IN  /\ o.profit * 100 >= arb.min_roi * o.cost
              /\ \E i \in DOMAIN arb.kalshi_markets, j \in DOMAIN arb.polymarket_markets :
                    LET k == arb.kalshi_markets[i]
                        q == arb.polymarket_markets[j]
                    IN  /\ ReachesThreshold(k, q)
                        /\ o.cost \in {k.yes_price + q.no_price, k.no_price + q.yes_price}
    /\ Len(arb.opportunities)
          <= Cardinality({ij \in (DOMAIN arb.kalshi_markets) \X (DOMAIN arb.polymarket_markets) :
                            ReachesThreshold(arb.kalshi_markets[ij[1]],
                                             arb.polymarket_markets[ij[2]])})

\* C32 witness: of two polymarket markets priced for an arbitrage above min_roi, the
\* one whose description is too far from the kalshi market's is left out and the other
\* one is returned
C32_Witness ==
    /\ arb.pc = "scanned"
    /\ Len(arb.kalshi_markets) = 1 /\ Len(arb.polymarket_markets) = 2
    /\ Len(arb.matched) = 1 /\ Len(arb.opportunities) = 1
    /\ \A j \in 1..2 :
          (100 - (arb.kalshi_markets[1].yes_price + arb.polymarket_markets[j].no_price)) * 100
              >= arb.min_roi * (arb.kalshi_markets[1].yes_price
                                  + arb.polymarket_markets[j].no_price)
    /\ \E j \in 1..2 :
          ~ReachesThreshold(arb.kalshi_markets[1], arb.polymarket_markets[j])

\* ====================================================== idempotency claims
\* C35: a process call with a non-empty key that starts after a process call of that
\* key has returned, and no more than ttl_seconds later, returns at once with the
\* stored result and starts no operation.
C35_CompletedKeyNotReexecuted ==
    [][ \A r \in Requests :
          (/\ idem'.calls = idem.calls + 1
           /\ idem'.started = r
           /\ idem'.requests[r].key # ""
           /\ idem.last_success[idem'.requests[r].key] >= 0
           /\ idem.time - idem.last_success[idem'.requests[r].key] <= ttl_seconds)
             => /\ idem'.requests[r].pc = "idle"
                /\ idem'.requests[r].outcome = "cached"
                /\ idem'.requests[r].value = idem.cache[idem'.requests[r].key].result
                /\ idem'.executions = idem.executions ]_vars

\* C35 witness: a request got the result another request had stored for the key, and
\* the operation of the key was started once
C35_Witness ==
    \E r \in Requests :
        /\ idem.requests[r].outcome = "cached"
        /\ idem.requests[r].key # ""
        /\ idem.requests[r].value # OperationResult(r)
        /\ idem.executions[idem.requests[r].key] = 1

\* C38: no two process calls of one non-empty key have their operation in progress at
\* the same time: of concurrent calls that share the key at most one executes it.
C38_AtMostOneExecutionPerKey ==
    \A r, q \in Requests :
        (/\ r # q
         /\ idem.requests[r].pc = "running" /\ idem.requests[q].pc = "running"
         /\ idem.requests[r].key # "")
           => idem.requests[r].key # idem.requests[q].key

====
